---- MODULE Spec2Model ----
(***************************************************************************)
(* Capture-and-transport pipeline of the Theias Symphony Windows audio     *)
(* streamers (seven variants of one pipeline):                             *)
(*   simple    windows-simple-system-streamer.py   SimpleSystemStreamer    *)
(*   fixed     windows-audio-streamer-fixed.py     WindowsAudioStreamer    *)
(*   mic       windows-mic-streamer.py             WindowsMicStreamer      *)
(*   auto      windows-system-audio-streamer-auto.py                       *)
(*   wasapi    windows-wasapi-streamer.py          WASAPIStreamer          *)
(*   universal windows-universal-audio-streamer.py UniversalAudioStreamer  *)
(*   system    windows-system-audio-streamer.py                            *)
(*                                                                         *)
(* Sample values are integers counting units of 0.00005 (5e-5): 0.5 is     *)
(* 10000, -0.2 is -4000, the literal 0.001 is 20 and 0.0001 is 2.  Inputs  *)
(* are multiples of 4 units, so that the mean of a pair and the product    *)
(* with a gain of 2.0, 2.5 or 3.0 are again whole units, as they are       *)
(* exact in float32 for the values used.  Gains are in tenths.             *)
(***************************************************************************)
EXTENDS Integers, Sequences, FiniteSets, TLC

VARIABLES
    variant,      \* which streamer script runs
    host,         \* index into Hosts: the audio subsystem the script runs on
    accepts,      \* sample rates the host's devices accept in audio.open
    pc,           \* position in start_streaming
    exit,         \* how start_streaming finished
    socketOpen,   \* self.socket created in __init__ and not yet closed
    audioInit,    \* self.audio (PyAudio) created and not yet terminated
    handles,      \* number of open capture stream handles
    device_id,    \* device_index / device_id local of start_streaming
    use_channels, \* channels passed to audio.open
    sample_rate,  \* self.sample_rate
    rateIdx,      \* position in the list of rates still to try
    opened,       \* rates passed to audio.open so far, in call order
    reported,     \* rates named by "Trying sample rate" status lines
    data,         \* samples returned by stream.read in this iteration
    audio_data,   \* audio_data local at the end of the iteration body
    max_level,    \* max_level / max_amplitude local (NoLevel: not computed)
    sendCalled,   \* socket.sendto was called in this iteration
    datagram,     \* payload handed to socket.sendto in this iteration
    cls,          \* outcome of the silence test of this iteration
    iterErr,      \* exception raised in this iteration: none/read/cond/send
    slept,        \* time.sleep ran in the except handler of this iteration
    typed,        \* what the operator typed at the device prompt, if asked
    sent,         \* number of socket.sendto calls of this iteration
    afterError,   \* the previous iteration ended in the inner except handler
    cin,          \* conditioning harness: the input (variant, raw, ch, n)
    cout,         \* conditioning harness: the result of Condition
    res           \* endpoint resolution: environment, position, result

vars == <<variant, host, accepts, pc, exit, socketOpen, audioInit, handles,
          device_id, use_channels, sample_rate, rateIdx, opened, reported,
          data, audio_data, max_level, sendCalled, datagram, cls, iterErr,
          slept, typed, sent, afterError, cin, cout, res>>

lifecycleVars == <<variant, host, accepts, pc, exit, socketOpen, audioInit,
                   handles, device_id, use_channels, sample_rate, rateIdx,
                   opened, reported, data, audio_data, max_level, sendCalled,
                   datagram, cls, iterErr, slept, typed, sent, afterError>>

----------------------------------------------------------------------------
(* Bounds of the model *)

\* self.chunk_size (1024 in every script), scaled down for the lifecycle
ChunkSize == 2
\* largest frame size the conditioning harness draws
CondFrame == 4
\* longest raw buffer the conditioning harness draws
MaxRaw == 8
\* largest number an operator types at a device prompt
MaxChoice == 3

\* sample values a device read returns in the lifecycle: quiet and loud
Samples == {4, -24}
\* sample values of the conditioning harness: -0.2, 0, 0.5
CondSamples == {-4000, 0, 10000}

SeqsUpTo(S, n) == UNION {[1..k -> S] : k \in 0..n}

\* a read may be short, exact or over-long, for one channel or two
RawBuffers == SeqsUpTo(Samples, 2 * ChunkSize + 2)
CondBuffers == SeqsUpTo(CondSamples, MaxRaw)
\* frame sizes of the conditioning harness
FrameSizes == (CondFrame - 1)..CondFrame

----------------------------------------------------------------------------
(* Program constants *)

Variants == {"simple", "fixed", "mic", "auto", "wasapi", "universal", "system"}

\* the literal 0.001 of the silence tests, in units of 5e-5
SilenceThreshold == 20
\* the literal 0.0001 of the WASAPI streamer's silence test
WasapiThreshold == 2

\* amplification factors in tenths: 2.0, 2.5, 3.0
GainSimple == 20
GainAuto == 20
GainSystem == 20
GainWasapi == 25
GainUniversal == 30
GainMic == 30

\* value of max_level when no level was computed
NoLevel == 0 - 1

----------------------------------------------------------------------------
(* Frame conditioning *)

Abs(x) == IF x < 0 THEN -x ELSE x

Max2(a, b) == IF a >= b THEN a ELSE b

\* np.max(np.abs(audio_data)) of a non-empty array
RECURSIVE MaxAbs(_)
MaxAbs(s) ==
    IF Len(s) = 1 THEN Abs(s[1])
    ELSE Max2(Abs(s[1]), MaxAbs(Tail(s)))

\* the mean of one [left, right] row
Mean2(a, b) == (a + b) \div 2

\* audio_data.reshape(-1, 2) raises ValueError on an odd number of samples
ReshapeFails(buf) == Len(buf) % 2 = 1

\* a downmix that keeps the left channel instead of averaging the pair
DownmixLeftOnly(buf) ==
    [k \in 1..(Len(buf) \div 2) |-> buf[2 * k - 1]]

\* np.mean(audio_data.reshape(-1, 2), axis=1)
Downmix(buf) ==
    [k \in 1..(Len(buf) \div 2) |-> Mean2(buf[2 * k - 1], buf[2 * k])]

Zeros(k) == [i \in 1..k |-> 0]

\* a normalization that pads in front and keeps the last n samples
NormalizeAtHead(buf, n) ==
    IF Len(buf) < n THEN Zeros(n - Len(buf)) \o buf
    ELSE IF Len(buf) > n THEN SubSeq(buf, Len(buf) - n + 1, Len(buf))
    ELSE buf

\* np.pad(audio_data, (0, n - len)) when short, audio_data[:n] when long
Normalize(buf, n) ==
    IF Len(buf) < n THEN buf \o Zeros(n - Len(buf))
    ELSE IF Len(buf) > n THEN SubSeq(buf, 1, n)
    ELSE buf

\* audio_data * gain, gain in tenths
Amplify(buf, gain) == [k \in 1..Len(buf) |-> (buf[k] * gain) \div 10]

\* the result of one pass through an iteration body up to the sendto call
\*   raised: an exception was raised before sendto
\*   mono:   audio_data after the stereo-to-mono step
\*   pre:    audio_data just before the gain multiplication
\*   level:  max_level / max_amplitude
\*   send:   sendto is called
\*   frame:  the samples handed to sendto
\*   cls:    outcome of the script's silence test
CondResult(raised, mono, pre, level, send, frame, c) ==
    [raised |-> raised, mono |-> mono, pre |-> pre, level |-> level,
     send |-> send, frame |-> frame, cls |-> c]

Raised == CondResult(TRUE, <<>>, <<>>, NoLevel, FALSE, <<>>, "none")

Classify(level, threshold) == IF level > threshold THEN "active" ELSE "silent"

\* the same steps with the level measured after the gain multiplication
MeasuredAfterGain(raw, ch, n, gain) ==
    IF ch = 2 /\ ReshapeFails(raw) THEN Raised
    ELSE LET mono == IF ch = 2 THEN Downmix(raw) ELSE raw
             pre == Normalize(mono, n)
             level == MaxAbs(Amplify(pre, gain))
         IN  CondResult(FALSE, mono, pre, level, TRUE, Amplify(pre, gain),
                        Classify(level, SilenceThreshold))

\* simple and universal: downmix, normalize, measure, amplify, send
MeasuredPipeline(raw, ch, n, gain) ==
    IF ch = 2 /\ ReshapeFails(raw) THEN Raised
    ELSE LET mono == IF ch = 2 THEN Downmix(raw) ELSE raw
             pre == Normalize(mono, n)
             level == MaxAbs(pre)
         IN  CondResult(FALSE, mono, pre, level, TRUE, Amplify(pre, gain),
                        Classify(level, SilenceThreshold))

CondSimple(raw, ch, n) == MeasuredPipeline(raw, ch, n, GainSimple)

CondUniversal(raw, ch, n) == MeasuredPipeline(raw, ch, n, GainUniversal)

\* wasapi: downmix only a full stereo buffer, then as above with its own
\* gain and its own threshold
CondWasapi(raw, ch, n) ==
    LET mix == ch = 2 /\ Len(raw) >= 2 * n
    IN  IF mix /\ ReshapeFails(raw) THEN Raised
        ELSE LET mono == IF mix THEN Downmix(raw) ELSE raw
                 pre == Normalize(mono, n)
                 level == MaxAbs(pre)
             IN  CondResult(FALSE, mono, pre, level, TRUE,
                            Amplify(pre, GainWasapi),
                            Classify(level, WasapiThreshold))

\* system: downmix, amplify, then normalize; no level, no silence test
CondSystem(raw, ch, n) ==
    IF ch = 2 /\ ReshapeFails(raw) THEN Raised
    ELSE LET mono == IF ch = 2 THEN Downmix(raw) ELSE raw
         IN  CondResult(FALSE, mono, mono, NoLevel, TRUE,
                        Normalize(Amplify(mono, GainSystem), n), "none")

\* auto: always downmix, measure (np.max of an empty array raises), and
\* amplify and send only above the threshold
CondAuto(raw, ch, n) ==
    IF ReshapeFails(raw) \/ Len(raw) = 0 THEN Raised
    ELSE LET mono == Downmix(raw)
             level == MaxAbs(mono)
             loud == level > SilenceThreshold
         IN  CondResult(FALSE, mono, mono, level, loud,
                        IF loud THEN Amplify(mono, GainAuto) ELSE <<>>,
                        Classify(level, SilenceThreshold))

\* fixed: the samples read are sent as they are
CondFixed(raw, ch, n) ==
    CondResult(FALSE, raw, raw, NoLevel, TRUE, raw, "none")

\* mic: the samples read are amplified and sent
CondMic(raw, ch, n) ==
    CondResult(FALSE, raw, raw, NoLevel, TRUE, Amplify(raw, GainMic), "none")

Condition(v, raw, ch, n) ==
    CASE v = "simple" -> CondSimple(raw, ch, n)
      [] v = "universal" -> CondUniversal(raw, ch, n)
      [] v = "wasapi" -> CondWasapi(raw, ch, n)
      [] v = "system" -> CondSystem(raw, ch, n)
      [] v = "auto" -> CondAuto(raw, ch, n)
      [] v = "fixed" -> CondFixed(raw, ch, n)
      [] OTHER -> CondMic(raw, ch, n)

\* the gain constant of a run, in tenths (10: no multiplication)
Gain(v) ==
    CASE v = "simple" -> GainSimple
      [] v = "universal" -> GainUniversal
      [] v = "wasapi" -> GainWasapi
      [] v = "system" -> GainSystem
      [] v = "auto" -> GainAuto
      [] v = "mic" -> GainMic
      [] OTHER -> 10

----------------------------------------------------------------------------
(* Device names and keyword matching.  A name is the sequence of its       *)
(* characters; `kw in name.lower()` is a substring search on the           *)
(* lower-cased name.                                                       *)

NameStereoMix ==
    <<"S","t","e","r","e","o"," ","M","i","x"," ","(","R","e","a","l","t","e","k"," ","A","u","d","i","o",")">>
NameMicrophone ==
    <<"M","i","c","r","o","p","h","o","n","e"," ","(","U","S","B"," ","A","u","d","i","o",")">>
NameSpeakers ==
    <<"S","p","e","a","k","e","r","s"," ","(","R","e","a","l","t","e","k"," ","A","u","d","i","o",")">>
NameSpeakersInput ==
    <<"S","p","e","a","k","e","r","s"," ","(","R","e","a","l","t","e","k",")"," ","I","n","p","u","t">>
NameRealtekMic ==
    <<"R","e","a","l","t","e","k"," ","M","i","c","r","o","p","h","o","n","e">>

KwStereoMix == <<"s","t","e","r","e","o"," ","m","i","x">>
KwWhatUHear == <<"w","h","a","t"," ","u"," ","h","e","a","r">>
KwLoopback == <<"l","o","o","p","b","a","c","k">>
KwWaveOutMix == <<"w","a","v","e"," ","o","u","t"," ","m","i","x">>
KwSpeakers == <<"s","p","e","a","k","e","r","s">>
KwInput == <<"i","n","p","u","t">>
KwRealtek == <<"r","e","a","l","t","e","k">>
KwStereo == <<"s","t","e","r","e","o">>
KwMix == <<"m","i","x">>
KwSoundMapper == <<"s","o","u","n","d"," ","m","a","p","p","e","r">>
KwHeadphones == <<"h","e","a","d","p","h","o","n","e","s">>
KwSystemAudio == <<"s","y","s","t","e","m"," ","a","u","d","i","o">>

\* str.lower() on one ASCII character
LowerChar(c) ==
    CASE c = "A" -> "a" [] c = "B" -> "b" [] c = "C" -> "c" [] c = "D" -> "d"
      [] c = "E" -> "e" [] c = "F" -> "f" [] c = "G" -> "g" [] c = "H" -> "h"
      [] c = "I" -> "i" [] c = "J" -> "j" [] c = "K" -> "k" [] c = "L" -> "l"
      [] c = "M" -> "m" [] c = "N" -> "n" [] c = "O" -> "o" [] c = "P" -> "p"
      [] c = "Q" -> "q" [] c = "R" -> "r" [] c = "S" -> "s" [] c = "T" -> "t"
      [] c = "U" -> "u" [] c = "V" -> "v" [] c = "W" -> "w" [] c = "X" -> "x"
      [] c = "Y" -> "y" [] c = "Z" -> "z" [] OTHER -> c

Lower(name) == [i \in 1..Len(name) |-> LowerChar(name[i])]

\* kw in s
Contains(s, kw) ==
    \E i \in 0..(Len(s) - Len(kw)) : SubSeq(s, i + 1, i + Len(kw)) = kw

----------------------------------------------------------------------------
(* The host audio subsystem: the device table PyAudio enumerates (device   *)
(* index i is devices[i + 1]), the default input device (NoDevice: none),  *)
(* the default output device and whether PyAudioWPatch is importable.      *)

NoDevice == 0 - 1

Device(name, maxIn, maxOut) ==
    [name |-> name, maxInputChannels |-> maxIn, maxOutputChannels |-> maxOut,
     queryable |-> TRUE]

\* an entry of the device table for which get_device_info_by_index raises:
\* no name and no channel count can be read from it
Unqueryable ==
    [name |-> <<>>, maxInputChannels |-> 0, maxOutputChannels |-> 0,
     queryable |-> FALSE]

Hosts ==
    << \* a Realtek machine with Stereo Mix enabled
       [devices |-> << Device(NameMicrophone, 1, 0),
                       Device(NameStereoMix, 2, 0),
                       Device(NameSpeakers, 0, 2) >>,
        defaultInput |-> 0, defaultOutput |-> 2, wpatch |-> FALSE],
       \* no Stereo Mix: only a one-channel microphone can be captured
       [devices |-> << Device(NameSpeakers, 0, 2),
                       Device(NameMicrophone, 1, 0) >>,
        defaultInput |-> 1, defaultOutput |-> 0, wpatch |-> FALSE],
       \* no input device at all
       [devices |-> << Device(NameSpeakers, 0, 2) >>,
        defaultInput |-> NoDevice, defaultOutput |-> 0, wpatch |-> FALSE],
       \* PyAudioWPatch lists a loopback twin of the default output
       [devices |-> << Device(NameSpeakers, 0, 2),
                       Device(NameSpeakers, 2, 0) >>,
        defaultInput |-> NoDevice, defaultOutput |-> 0, wpatch |-> TRUE],
       \* two Stereo Mix devices around a microphone
       [devices |-> << Device(NameStereoMix, 2, 0),
                       Device(NameMicrophone, 1, 0),
                       Device(NameStereoMix, 2, 0) >>,
        defaultInput |-> 1, defaultOutput |-> NoDevice, wpatch |-> FALSE],
       \* a speakers input enumerated before Stereo Mix
       [devices |-> << Device(NameSpeakersInput, 2, 0),
                       Device(NameStereoMix, 2, 0) >>,
        defaultInput |-> 0, defaultOutput |-> NoDevice, wpatch |-> FALSE],
       \* the same two devices enumerated the other way round
       [devices |-> << Device(NameStereoMix, 2, 0),
                       Device(NameSpeakersInput, 2, 0) >>,
        defaultInput |-> 1, defaultOutput |-> NoDevice, wpatch |-> FALSE],
       \* a Realtek microphone is the only input device
       [devices |-> << Device(NameRealtekMic, 1, 0),
                       Device(NameSpeakers, 0, 2) >>,
        defaultInput |-> 0, defaultOutput |-> 1, wpatch |-> FALSE],
       \* a Stereo Mix device with a single input channel
       [devices |-> << Device(NameStereoMix, 1, 0),
                       Device(NameSpeakers, 0, 2) >>,
        defaultInput |-> 0, defaultOutput |-> 1, wpatch |-> FALSE],
       \* a device that cannot be queried is enumerated before Stereo Mix
       [devices |-> << Unqueryable,
                       Device(NameStereoMix, 2, 0),
                       Device(NameMicrophone, 1, 0) >>,
        defaultInput |-> 2, defaultOutput |-> NoDevice, wpatch |-> FALSE],
       \* PyAudioWPatch: a device that cannot be queried stands between the
       \* default output and its loopback twin
       [devices |-> << Device(NameSpeakers, 0, 2),
                       Unqueryable,
                       Device(NameSpeakers, 2, 0) >>,
        defaultInput |-> NoDevice, defaultOutput |-> 0, wpatch |-> TRUE] >>

DeviceCount(h) == Len(Hosts[h].devices)

Indices(h) == 0..(DeviceCount(h) - 1)

\* audio.get_device_info_by_index(i)
Info(h, i) == Hosts[h].devices[i + 1]

\* audio.get_device_info_by_index(i) raises
Raises(h, i) == ~Hosts[h].devices[i + 1].queryable

NameLower(h, i) == Lower(Info(h, i).name)

MinOf(S) == CHOOSE x \in S : \A y \in S : x <= y

MaxOf(S) == CHOOSE x \in S : \A y \in S : x >= y

\* the indices in S in ascending order, as a sequence
RECURSIVE Ascending(_)
Ascending(S) ==
    IF S = {} THEN <<>> ELSE <<MinOf(S)>> \o Ascending(S \ {MinOf(S)})

\* devices with maxInputChannels > 0, in enumeration order
InputDevices(h) ==
    Ascending({i \in Indices(h) : Info(h, i).maxInputChannels > 0})

IsStereoMix(h, i) ==
    /\ Info(h, i).maxInputChannels > 0
    /\ Contains(NameLower(h, i), KwStereoMix)

\* what the operator types at a prompt: Enter alone, Ctrl+C, or a number
InputEnter == 0 - 1
InputCtrlC == 0 - 2
OperatorInputs == {InputEnter, InputCtrlC} \cup 0..MaxChoice

\* the outcome of device selection
Selected(i, channels) == [kind |-> "device", id |-> i, channels |-> channels]
NotFound == [kind |-> "none", id |-> NoDevice, channels |-> 0]
LookupFails == [kind |-> "raise", id |-> NoDevice, channels |-> 0]
\* the query of device i raises inside the try statement, after the local
\* device_index was bound to i
LookupFailsAt(i) == [kind |-> "raise", id |-> i, channels |-> 0]
\* an exception raised before the try statement of start_streaming
Crashes == [kind |-> "crash", id |-> NoDevice, channels |-> 0]

\* min(2, max_channels) if max_channels > 0 else 1
ChannelsFor(maxIn) == IF maxIn > 0 THEN (IF maxIn < 2 THEN maxIn ELSE 2) ELSE 1

\* min(2, channels)
Min2Channels(channels) == IF channels < 2 THEN channels ELSE 2

\* SimpleSystemStreamer: first Stereo Mix, else the operator's pick among
\* the other input devices, else return; list_devices passes over a device
\* whose query raises (except Exception: continue)
SelectSimple(h, inp) ==
    LET stereo == Ascending({i \in Indices(h) : IsStereoMix(h, i)})
        other == Ascending({i \in Indices(h) :
                     /\ Info(h, i).maxInputChannels > 0
                     /\ ~Contains(NameLower(h, i), KwStereoMix)})
        pick == IF stereo # <<>> THEN stereo[1]
                ELSE IF inp >= 0 /\ 0 <= inp - 1 /\ inp - 1 < Len(other)
                     THEN other[inp]
                     ELSE NoDevice
    IN  IF pick = NoDevice THEN NotFound
        ELSE Selected(pick, ChannelsFor(Info(h, pick).maxInputChannels))

\* WindowsAudioStreamer (fixed): last Stereo Mix, else the default input,
\* else device 0; always one channel. The search queries every device inside
\* the try statement of start_streaming, without a handler of its own
SelectFixed(h, inp) ==
    LET mix == {i \in Indices(h) : IsStereoMix(h, i)}
        pick == IF mix # {} THEN MaxOf(mix)
                ELSE IF Hosts[h].defaultInput # NoDevice
                     THEN Hosts[h].defaultInput
                     ELSE 0
    IN  IF \E i \in Indices(h) : Raises(h, i) THEN LookupFails
        ELSE IF pick \in Indices(h) THEN Selected(pick, 1)
        ELSE LookupFailsAt(pick)

\* WindowsMicStreamer: device 1, one channel
SelectMic(h, inp) ==
    IF 1 \in Indices(h) /\ ~Raises(h, 1) THEN Selected(1, 1)
    ELSE LookupFailsAt(1)

\* WindowsSystemAudioStreamer (auto): first Stereo Mix, two channels forced.
\* The search runs before the try statement and queries the devices in index
\* order, up to the first Stereo Mix, without a handler
SelectAuto(h, inp) ==
    LET mix == {i \in Indices(h) : IsStereoMix(h, i)}
        queried == IF mix = {} THEN Indices(h)
                   ELSE {i \in Indices(h) : i <= MinOf(mix)}
    IN  IF \E i \in queried : Raises(h, i) THEN Crashes
        ELSE IF mix = {} THEN NotFound ELSE Selected(MinOf(mix), 2)

\* the score of a lower-cased name in find_system_audio_source
Score(name) ==
    IF Contains(name, KwStereoMix) THEN 100
    ELSE IF Contains(name, KwWhatUHear) THEN 90
    ELSE IF Contains(name, KwLoopback) THEN 85
    ELSE IF Contains(name, KwWaveOutMix) THEN 80
    ELSE IF Contains(name, KwSpeakers) /\ Contains(name, KwInput) THEN 70
    ELSE IF Contains(name, KwRealtek)
            /\ (Contains(name, KwStereo) \/ Contains(name, KwMix)) THEN 60
    ELSE IF Contains(name, KwSoundMapper) THEN 50
    ELSE 0

\* candidates.sort(reverse=True)[0]: tuples (score, index, ...) compare by
\* score and then by index, and the largest comes first; a device whose
\* query raises is passed over (except: continue)
TopCandidate(h) ==
    LET cand == {i \in Indices(h) :
                    /\ Info(h, i).maxInputChannels > 0
                    /\ Score(NameLower(h, i)) > 0}
        best == MaxOf({Score(NameLower(h, i)) : i \in cand})
    IN  IF cand = {} THEN NoDevice
        ELSE MaxOf({i \in cand : Score(NameLower(h, i)) = best})

\* get_loopback_device(get_default_output_device()): one try statement
\* encloses the whole loop, so the first query that raises ends the search
LoopbackDevice(h) ==
    LET out == Hosts[h].defaultOutput
        twins == {i \in Indices(h) :
                     /\ Info(h, i).name = Info(h, out).name
                     /\ Info(h, i).maxInputChannels > 0
                     /\ \A j \in 0..i : ~Raises(h, j)}
    IN  IF Hosts[h].wpatch /\ out \in Indices(h) /\ ~Raises(h, out)
           /\ twins # {}
        THEN MinOf(twins) ELSE NoDevice

\* WASAPIStreamer: the loopback twin, else the top-scored candidate
SelectWasapi(h, inp) ==
    LET pick == IF LoopbackDevice(h) # NoDevice THEN LoopbackDevice(h)
                ELSE TopCandidate(h)
    IN  IF pick = NoDevice THEN NotFound
        ELSE Selected(pick, Min2Channels(Info(h, pick).maxInputChannels))

priority_keywords ==
    <<KwStereoMix, KwWhatUHear, KwLoopback, KwWaveOutMix, KwSpeakers,
      KwRealtek, KwSoundMapper>>

\* UniversalAudioStreamer: first keyword in priority order that some input
\* device matches, else the operator's pick, else the first input device;
\* list_audio_devices passes over a device whose query raises
SelectUniversal(h, inp) ==
    LET ins == InputDevices(h)
        hits(k) == {j \in 1..Len(ins) :
                       Contains(NameLower(h, ins[j]), priority_keywords[k])}
        kws == {k \in 1..Len(priority_keywords) : hits(k) # {}}
        pick == IF kws # {} THEN ins[MinOf(hits(MinOf(kws)))]
                ELSE IF ins = <<>> THEN NoDevice
                ELSE IF inp >= 0 /\ 0 <= inp - 1 /\ inp - 1 < Len(ins)
                     THEN ins[inp]
                     ELSE ins[1]
    IN  IF pick = NoDevice THEN NotFound
        ELSE Selected(pick, Min2Channels(Info(h, pick).maxInputChannels))

system_audio_names ==
    <<KwStereoMix, KwWhatUHear, KwWaveOutMix, KwSpeakers, KwHeadphones,
      KwRealtek, KwSystemAudio, KwLoopback>>

\* WindowsSystemAudioStreamer (system): first input device matching any
\* name, else the index the operator types. list_audio_devices runs before
\* the try statement and queries every device without a handler
SelectSystem(h, inp) ==
    LET found == {i \in Indices(h) :
                     /\ Info(h, i).maxInputChannels > 0
                     /\ \E k \in 1..Len(system_audio_names) :
                            Contains(NameLower(h, i), system_audio_names[k])}
        pick == IF found # {} THEN MinOf(found) ELSE inp
    IN  IF \E i \in Indices(h) : Raises(h, i) THEN Crashes
        ELSE IF found = {} /\ inp < 0 THEN NotFound
        ELSE IF pick \notin Indices(h) THEN LookupFailsAt(pick)
        ELSE Selected(pick, ChannelsFor(Info(h, pick).maxInputChannels))

\* the script asks the operator for a device: simple when it lists no
\* Stereo Mix, universal when no keyword matches an input device, system
\* when its search returns None
Prompts(v, h) ==
    CASE v = "simple" -> \A i \in Indices(h) : ~IsStereoMix(h, i)
      [] v = "universal" ->
             /\ InputDevices(h) # <<>>
             /\ \A i \in Indices(h) : \A k \in 1..Len(priority_keywords) :
                    Info(h, i).maxInputChannels > 0
                        => ~Contains(NameLower(h, i), priority_keywords[k])
      [] v = "system" ->
             /\ \A i \in Indices(h) : ~Raises(h, i)
             /\ \A i \in Indices(h) : \A k \in 1..Len(system_audio_names) :
                    Info(h, i).maxInputChannels > 0
                        => ~Contains(NameLower(h, i), system_audio_names[k])
      [] OTHER -> FALSE

\* the inputs read by input() in a run: none when the script does not ask
NotAsked == 0 - 3
Asked(v, h) == IF Prompts(v, h) THEN OperatorInputs ELSE {NotAsked}

Select(v, h, inp) ==
    CASE v = "simple" -> SelectSimple(h, inp)
      [] v = "fixed" -> SelectFixed(h, inp)
      [] v = "mic" -> SelectMic(h, inp)
      [] v = "auto" -> SelectAuto(h, inp)
      [] v = "wasapi" -> SelectWasapi(h, inp)
      [] v = "universal" -> SelectUniversal(h, inp)
      [] OTHER -> SelectSystem(h, inp)

----------------------------------------------------------------------------
(* Stream negotiation *)

\* the candidate list of WindowsAudioStreamer.start_streaming
sample_rates == <<44100, 48000, 22050, 16000>>

\* self.sample_rate as set by every constructor
DefaultRate == sample_rates[1]

\* a negotiation that never moves past self.sample_rate
RatesToTryDefaultOnly(v) == <<DefaultRate>>

\* the rates a script passes to audio.open, in order: the fixed streamer
\* walks the list, every other script opens at self.sample_rate only
RatesToTry(v) == IF v = "fixed" THEN sample_rates ELSE <<DefaultRate>>

\* audio.open succeeds: the host accepts the rate, and the device has the
\* requested number of input channels
OpenAccepted(h, dev, channels, rate) ==
    /\ rate \in accepts
    /\ channels >= 1
    /\ channels <= Info(h, dev).maxInputChannels

\* the read, conditioning and send of the loop body sit in a try of their
\* own in every script but the fixed and the microphone streamer
HasInnerTry(v) == v \notin {"fixed", "mic"}

\* the handler of the inner try sleeps 0.1 s in the WASAPI streamer only
SleepsOnError(v) == v = "wasapi"

\* a loop body that sends each frame in two parts
SendsPerFrameTwice(v) == 2

\* the loop body holds one socket.sendto statement, outside any loop
SendsPerFrame(v) == 1

\* the silence test comes before the send in the auto streamer and after
\* it elsewhere
TestsBeforeSend(v) == v = "auto"

----------------------------------------------------------------------------
(* The life of start_streaming *)

NoInput == [v |-> "none", raw |-> <<>>, ch |-> 0, n |-> 0]

NoOutput == [state |-> "idle", r |-> Raised]

\* endpoint resolution is not running
NoResolution == [pc |-> "off"]

ClearedIteration ==
    /\ data' = <<>>
    /\ audio_data' = <<>>
    /\ max_level' = NoLevel
    /\ sendCalled' = FALSE
    /\ datagram' = <<>>
    /\ cls' = "none"
    /\ iterErr' = "none"
    /\ slept' = FALSE
    /\ sent' = 0

iterVars == <<data, audio_data, max_level, sendCalled, datagram, cls,
              iterErr, slept, sent>>

\* the state after __init__: the socket and the PyAudio object exist
Init ==
    /\ variant \in Variants
    /\ host \in 1..Len(Hosts)
    /\ accepts \in SUBSET {sample_rates[i] : i \in 1..Len(sample_rates)}
    /\ pc = "start"
    /\ exit = "none"
    /\ socketOpen = TRUE
    /\ audioInit = TRUE
    /\ handles = 0
    /\ device_id = NoDevice
    /\ use_channels = 0
    /\ sample_rate = DefaultRate
    /\ rateIdx = 1
    /\ opened = <<>>
    /\ reported = <<>>
    /\ data = <<>>
    /\ audio_data = <<>>
    /\ max_level = NoLevel
    /\ sendCalled = FALSE
    /\ datagram = <<>>
    /\ cls = "none"
    /\ iterErr = "none"
    /\ slept = FALSE
    /\ typed = NotAsked
    /\ sent = 0
    /\ afterError = FALSE
    /\ cin = NoInput
    /\ cout = NoOutput
    /\ res = NoResolution

\* the finally block: stop and close the stream if one is bound, terminate
\* PyAudio, close the socket
Finally ==
    /\ handles' = IF handles > 0 THEN handles - 1 ELSE handles
    /\ audioInit' = FALSE
    /\ socketOpen' = FALSE

\* device selection ends with `return` before the try statement
EarlyReturn ==
    /\ pc = "start"
    /\ \E inp \in Asked(variant, host) :
           /\ Select(variant, host, inp).kind = "none"
           /\ typed' = inp
    /\ pc' = "done"
    /\ exit' = "no_device"
    /\ UNCHANGED <<variant, host, accepts, afterError,
                   socketOpen, audioInit, handles,
                   device_id, use_channels, sample_rate, rateIdx, opened,
                   reported, iterVars, cin, cout, res>>

\* get_device_info_by_index raises inside the try: handler, then finally;
\* device_index keeps the value it was bound to before the query
DeviceLookupFails ==
    /\ pc = "start"
    /\ \E inp \in Asked(variant, host) :
           LET sel == Select(variant, host, inp)
           IN  /\ sel.kind = "raise"
               /\ device_id' = sel.id
               /\ typed' = inp
    /\ pc' = "done"
    /\ exit' = "device_error"
    /\ Finally
    /\ UNCHANGED <<variant, host, accepts, afterError,
                   use_channels,
                   sample_rate, rateIdx, opened, reported, iterVars, cin, cout, res>>

\* a device query raises before the try statement of start_streaming: no
\* handler and no finally block, the exception leaves start_streaming and
\* the script ends with a traceback
EnumerationCrashes ==
    /\ pc = "start"
    /\ \E inp \in Asked(variant, host) :
           /\ Select(variant, host, inp).kind = "crash"
           /\ typed' = inp
    /\ pc' = "done"
    /\ exit' = "crash"
    /\ UNCHANGED <<variant, host, accepts, afterError,
                   socketOpen, audioInit, handles,
                   device_id, use_channels, sample_rate, rateIdx, opened,
                   reported, iterVars, cin, cout, res>>

\* self.channels of the constructor, or the 2 the script asks for
PreferredChannels(v) == IF v \in {"fixed", "mic"} THEN 1 ELSE 2

\* a device is found or chosen, and its channel count is settled
SelectDevice ==
    /\ pc = "start"
    /\ \E inp \in Asked(variant, host) :
           LET sel == Select(variant, host, inp)
           IN  /\ sel.kind = "device"
               /\ device_id' = sel.id
               /\ use_channels' = sel.channels
               /\ typed' = inp
    /\ pc' = "open"
    /\ UNCHANGED <<variant, host, accepts, afterError,
                   exit, socketOpen, audioInit,
                   handles, sample_rate, rateIdx, opened, reported, iterVars,
                   cin, cout, res>>

CurrentRate == RatesToTry(variant)[rateIdx]

Attempted ==
    /\ opened' = Append(opened, CurrentRate)
    /\ reported' = IF variant = "fixed" THEN Append(reported, CurrentRate)
                   ELSE reported

\* audio.open succeeds: the stream is kept and the loop is entered
OpenSucceeds ==
    /\ pc = "open"
    /\ OpenAccepted(host, device_id, use_channels, CurrentRate)
    /\ Attempted
    /\ handles' = handles + 1
    /\ sample_rate' = IF variant = "fixed" THEN CurrentRate ELSE sample_rate
    /\ pc' = "running"
    /\ UNCHANGED <<variant, host, accepts, typed, afterError,
                   exit, socketOpen, audioInit,
                   device_id, use_channels, rateIdx, iterVars, cin, cout, res>>

\* audio.open raises and another candidate rate is left
OpenRetries ==
    /\ pc = "open"
    /\ ~OpenAccepted(host, device_id, use_channels, CurrentRate)
    /\ rateIdx < Len(RatesToTry(variant))
    /\ Attempted
    /\ rateIdx' = rateIdx + 1
    /\ UNCHANGED <<variant, host, accepts, typed, afterError,
                   pc, exit, socketOpen, audioInit,
                   handles, device_id, use_channels, sample_rate, iterVars,
                   cin, cout, res>>

\* audio.open raises and no candidate is left: handler, then finally
OpenGivesUp ==
    /\ pc = "open"
    /\ ~OpenAccepted(host, device_id, use_channels, CurrentRate)
    /\ rateIdx = Len(RatesToTry(variant))
    /\ Attempted
    /\ pc' = "done"
    /\ exit' = "open_failed"
    /\ Finally
    /\ UNCHANGED <<variant, host, accepts, typed, afterError,
                   device_id, use_channels,
                   sample_rate, rateIdx, iterVars, cin, cout, res>>

\* where an exception of the loop body goes: to the inner handler and on
\* to the next iteration, or to the outer handler and finally
AfterIterationError ==
    IF HasInnerTry(variant)
    THEN /\ pc' = "iterated"
         /\ slept' = SleepsOnError(variant)
         /\ UNCHANGED <<exit, socketOpen, audioInit, handles>>
    ELSE /\ pc' = "done"
         /\ exit' = "stream_error"
         /\ slept' = FALSE
         /\ Finally

\* stream.read raises
ReadFails ==
    /\ pc = "running"
    /\ data' = <<>>
    /\ audio_data' = <<>>
    /\ max_level' = NoLevel
    /\ sendCalled' = FALSE
    /\ sent' = 0
    /\ datagram' = <<>>
    /\ cls' = "none"
    /\ iterErr' = "read"
    /\ AfterIterationError
    /\ UNCHANGED <<variant, host, accepts, typed, afterError,
                   device_id, use_channels,
                   sample_rate, rateIdx, opened, reported, cin, cout, res>>

\* stream.read returns raw and conditioning raises before the send:
\* np.frombuffer has bound audio_data to the samples read, and the
\* statement that raises (reshape, or np.max of no samples) rebinds nothing
ConditioningFails ==
    /\ pc = "running"
    /\ \E raw \in RawBuffers :
           /\ Condition(variant, raw, use_channels, ChunkSize).raised
           /\ data' = raw
           /\ audio_data' = raw
    /\ max_level' = NoLevel
    /\ sendCalled' = FALSE
    /\ sent' = 0
    /\ datagram' = <<>>
    /\ cls' = "none"
    /\ iterErr' = "cond"
    /\ AfterIterationError
    /\ UNCHANGED <<variant, host, accepts, typed, afterError,
                   device_id, use_channels,
                   sample_rate, rateIdx, opened, reported, cin, cout, res>>

\* one full pass: read, condition, and sendto returns
IterationSends ==
    /\ pc = "running"
    /\ \E raw \in RawBuffers :
           LET r == Condition(variant, raw, use_channels, ChunkSize)
           IN  /\ ~r.raised
               /\ r.send
               /\ data' = raw
               /\ audio_data' = r.frame
               /\ max_level' = r.level
               /\ datagram' = r.frame
               /\ cls' = r.cls
    /\ sendCalled' = TRUE
    /\ sent' = SendsPerFrame(variant)
    /\ iterErr' = "none"
    /\ slept' = FALSE
    /\ pc' = "iterated"
    /\ UNCHANGED <<variant, host, accepts, typed, afterError,
                   exit, socketOpen, audioInit,
                   handles, device_id, use_channels, sample_rate, rateIdx,
                   opened, reported, cin, cout, res>>

\* one pass in which the script decides not to send
IterationSkipsSend ==
    /\ pc = "running"
    /\ \E raw \in RawBuffers :
           LET r == Condition(variant, raw, use_channels, ChunkSize)
           IN  /\ ~r.raised
               /\ ~r.send
               /\ data' = raw
               /\ audio_data' = r.pre
               /\ max_level' = r.level
               /\ cls' = r.cls
    /\ sendCalled' = FALSE
    /\ sent' = 0
    /\ datagram' = <<>>
    /\ iterErr' = "none"
    /\ slept' = FALSE
    /\ pc' = "iterated"
    /\ UNCHANGED <<variant, host, accepts, typed, afterError,
                   exit, socketOpen, audioInit,
                   handles, device_id, use_channels, sample_rate, rateIdx,
                   opened, reported, cin, cout, res>>

\* one pass in which sendto raises
SendFails ==
    /\ pc = "running"
    /\ \E raw \in RawBuffers :
           LET r == Condition(variant, raw, use_channels, ChunkSize)
           IN  /\ ~r.raised
               /\ r.send
               /\ data' = raw
               /\ audio_data' = r.frame
               /\ max_level' = r.level
               /\ datagram' = r.frame
               /\ cls' = IF TestsBeforeSend(variant) THEN r.cls ELSE "none"
    /\ sendCalled' = TRUE
    /\ sent' = SendsPerFrame(variant)
    /\ iterErr' = "send"
    /\ AfterIterationError
    /\ UNCHANGED <<variant, host, accepts, typed, afterError,
                   device_id, use_channels,
                   sample_rate, rateIdx, opened, reported, cin, cout, res>>

\* the end of the loop body, or `continue`: back to `while True`, where the
\* locals of the body are bound anew before they are read
Continue ==
    /\ pc = "iterated"
    /\ pc' = "running"
    /\ afterError' = (iterErr # "none")
    /\ ClearedIteration
    /\ UNCHANGED <<variant, host, accepts, typed,
                   exit, socketOpen, audioInit,
                   handles, device_id, use_channels, sample_rate, rateIdx,
                   opened, reported, cin, cout, res>>

\* Ctrl+C while the loop runs: KeyboardInterrupt is no Exception, so no
\* handler takes it and the finally block runs
Interrupt ==
    /\ pc \in {"running", "iterated"}
    /\ pc' = "done"
    /\ exit' = "interrupt"
    /\ Finally
    /\ UNCHANGED <<variant, host, accepts, typed, afterError,
                   device_id, use_channels,
                   sample_rate, rateIdx, opened, reported, iterVars, cin, cout, res>>

Next ==
    \/ EarlyReturn
    \/ DeviceLookupFails
    \/ EnumerationCrashes
    \/ SelectDevice
    \/ OpenSucceeds
    \/ OpenRetries
    \/ OpenGivesUp
    \/ ReadFails
    \/ ConditioningFails
    \/ IterationSends
    \/ IterationSkipsSend
    \/ SendFails
    \/ Continue
    \/ Interrupt

Spec == Init /\ [][Next]_vars

----------------------------------------------------------------------------
(* The conditioning harness: Condition applied to one drawn input *)

\* the lifecycle variables while a harness runs: no streamer is started
LifecycleOff ==
    /\ variant = "none"
    /\ host = 1
    /\ accepts = {}
    /\ pc = "off"
    /\ exit = "none"
    /\ socketOpen = FALSE
    /\ audioInit = FALSE
    /\ handles = 0
    /\ device_id = NoDevice
    /\ use_channels = 0
    /\ sample_rate = DefaultRate
    /\ rateIdx = 1
    /\ opened = <<>>
    /\ reported = <<>>
    /\ data = <<>>
    /\ audio_data = <<>>
    /\ max_level = NoLevel
    /\ sendCalled = FALSE
    /\ datagram = <<>>
    /\ cls = "none"
    /\ iterErr = "none"
    /\ slept = FALSE
    /\ typed = NotAsked
    /\ sent = 0
    /\ afterError = FALSE

CondInit ==
    /\ cin \in [v : Variants, raw : CondBuffers, ch : {1, 2}, n : FrameSizes]
    /\ cout = [state |-> "pending", r |-> Raised]
    /\ res = NoResolution
    /\ LifecycleOff

ApplyCondition ==
    /\ cout.state = "pending"
    /\ cout' = [state |-> "done",
                r |-> Condition(cin.v, cin.raw, cin.ch, cin.n)]
    /\ UNCHANGED <<cin, lifecycleVars, res>>

CondNext == ApplyCondition

SpecCond == CondInit /\ [][CondNext]_vars

----------------------------------------------------------------------------
(* Endpoint resolution: detect_wsl_ip of the auto, universal and WASAPI    *)
(* streamers, called by __init__.  Text is a sequence of characters.       *)

Digits == {"0", "1", "2", "3", "4", "5", "6", "7", "8", "9"}

\* the characters str.split() and str.strip() treat as separators
IsSpace(c) == c \in {" ", "\t", "\n"}

NoToken == <<"?">>

\* the first element of set(result.stdout.split()): the order in which a
\* set of strings is iterated follows the string hashes, which are salted
\* anew in every process; the salt of process 0 puts the first token in
\* front, the salt of process 1 the last one
TokenOfSet(out) ==
    LET tok == {i \in 1..Len(out) : ~IsSpace(out[i])}
    IN  IF tok = {} THEN NoToken
        ELSE IF res.seed = 0
        THEN LET b == MinOf(tok)
                 stops == {i \in b..Len(out) : IsSpace(out[i])}
                 e == IF stops = {} THEN Len(out) ELSE MinOf(stops) - 1
             IN  SubSeq(out, b, e)
        ELSE LET e == MaxOf(tok)
                 gaps == {i \in 1..e : IsSpace(out[i])}
                 b == IF gaps = {} THEN 1 ELSE MaxOf(gaps) + 1
             IN  SubSeq(out, b, e)

\* result.stdout.strip().split()[0], or NoToken where [0] raises IndexError
FirstToken(out) ==
    LET starts == {i \in 1..Len(out) : ~IsSpace(out[i])}
    IN  IF starts = {} THEN NoToken
        ELSE LET b == MinOf(starts)
                 stops == {i \in b..Len(out) : IsSpace(out[i])}
                 e == IF stops = {} THEN Len(out) ELSE MinOf(stops) - 1
             IN  SubSeq(out, b, e)

\* re.match(r'^(\d{1,3}\.){3}\d{1,3}$', ip) is not None
DotCount(ip) == Cardinality({i \in 1..Len(ip) : ip[i] = "."})

\* where the k-th group of the pattern ends: the position of the k-th dot,
\* 0 before the text and Len(ip) + 1 after it
Cut(ip, k) ==
    IF k = 0 THEN 0
    ELSE IF k > DotCount(ip) THEN Len(ip) + 1
    ELSE CHOOSE i \in 1..Len(ip) :
             /\ ip[i] = "."
             /\ Cardinality({j \in 1..i : ip[j] = "."}) = k

validate_ip(ip) ==
    /\ DotCount(ip) = 3
    /\ \A i \in 1..Len(ip) : ip[i] \in Digits \cup {"."}
    /\ \A k \in 1..4 : /\ Cut(ip, k) - Cut(ip, k - 1) - 1 >= 1
                        /\ Cut(ip, k) - Cut(ip, k - 1) - 1 <= 3

\* '.' in ip
HasDot(ip) == \E i \in 1..Len(ip) : ip[i] = "."

\* the test a script applies to the helper's first token
AcceptsToken(v, ip) == IF v = "wasapi" THEN HasDot(ip) ELSE validate_ip(ip)

Loopback == <<"1","2","7",".","0",".","0",".","1">>

ProbeBases == << <<"1","7","2",".","2","8",".">>,
                 <<"1","7","2",".","2","9",".">>,
                 <<"1","7","2",".","3","0",".">> >>

\* str(i) for a two-digit i
TwoDigits(i) ==
    LET d == <<"0", "1", "2", "3", "4", "5", "6", "7", "8", "9">>
    IN  <<d[(i \div 10) + 1], d[(i % 10) + 1]>>

\* the addresses probed, in order: for base in [...]: for i in range(48, 80)
ProbeList ==
    [k \in 1..(3 * 32) |->
        ProbeBases[((k - 1) \div 32) + 1] \o TwoDigits(48 + ((k - 1) % 32))
            \o <<".", "7", "1">>]

\* self.wsl_port exists while detect_wsl_ip runs: __init__ assigns it only
\* after detect_wsl_ip has returned, in the first run and in every other
PortBound(run) == FALSE

\* test_connection(ip): any exception, the AttributeError for the missing
\* self.wsl_port included, is caught and gives False
test_connection(portBound, reachable) == portBound /\ reachable

\* test_socket.close() is the statement after sendto inside the try: it runs
\* when sendto has returned, and is passed over when an exception is raised
ClosesProbeSocket(sendReturned) == sendReturned

\* the probe sockets test_connection has returned without closing, after the
\* first n candidates were probed
Unclosed(r, n) ==
    Cardinality({k \in 1..n :
        ~ClosesProbeSocket(test_connection(PortBound(r.run), k \in r.net))})

\* a handler that takes FileNotFoundError alone
CatchesOSErrorOnly(exc) == exc = "FileNotFoundError"

\* `except:` takes every exception
BareExceptCatches(exc) == TRUE

\* what subprocess.run(['wsl', 'hostname', '-I'], timeout=5) does
HelperOutputs ==
    { <<"1","7","2",".","2","8",".","5","1",".","7","1"," ","\n">>,
      <<"1","0",".","0",".","0",".","5"," ","1","7","2",".","1","7",".","0",".","1">>,
      <<"9","9","9",".","3","0","0",".","1",".","1">>,
      <<"f","e","8","0",":",":","1"," ","1","7","2",".","2","8",".","5","1",".","7","1">>,
      <<"h","o","s","t",".","l","o","c","a","l">>,
      <<"1",".","2",".","3">>,
      <<>>,
      <<" ", " ">> }

HelperResults ==
    {[kind |-> "missing", out |-> <<>>], [kind |-> "timeout", out |-> <<>>],
     [kind |-> "nonzero", out |-> <<"1","7","2",".","2","8",".","5","1",".","7","1">>]}
        \cup {[kind |-> "output", out |-> o] : o \in HelperOutputs}

\* the probe addresses a datagram can be sent to
Networks == {{}, 1..(3 * 32), {3 * 32}}

ResolvingVariants == {"auto", "universal", "wasapi"}

\* the exception the helper stage raises inside its try, if any
HelperException(h) ==
    CASE h.kind = "missing" -> "FileNotFoundError"
      [] h.kind = "timeout" -> "TimeoutExpired"
      [] h.kind = "output" /\ FirstToken(h.out) = NoToken -> "IndexError"
      [] OTHER -> "none"

\* the script is started: the environment is what `wsl hostname -I` does
\* (helper) and the set of candidates a datagram can be sent to (net); seed
\* is the salt of the string hashes the interpreter draws at start-up.
\* env1 keeps the environment and the salt of the first start.
ResolveInit ==
    /\ res \in {[pc |-> "helper", v |-> v, helper |-> h, net |-> n,
                  seed |-> sd, env1 |-> [helper |-> h, net |-> n, seed |-> sd],
                  run |-> 1, ip |-> <<>>, first |-> <<>>, via |-> "none",
                  helperCalls |-> 0, probed |-> 0, unclosed |-> 0] :
                    v \in ResolvingVariants, h \in HelperResults,
                    n \in Networks, sd \in 0..1}
    /\ cin = NoInput
    /\ cout = NoOutput
    /\ LifecycleOff

\* the first try block: run the helper once and test its first token
AfterHelper(r) ==
    LET h == r.helper
        exc == HelperException(h)
        ip == FirstToken(h.out)
        ok == h.kind = "output" /\ exc = "none" /\ AcceptsToken(r.v, ip)
    IN  [r EXCEPT
            !.helperCalls = @ + 1,
            !.ip = IF ok THEN ip ELSE @,
            !.via = IF ok THEN "helper" ELSE @,
            !.pc = IF exc # "none" /\ ~BareExceptCatches(exc) THEN "raised"
                   ELSE IF ok THEN "returned"
                   ELSE IF r.v = "auto" THEN "probe"
                   ELSE "fallback"]

HelperStage ==
    /\ res.pc = "helper"
    /\ res' = AfterHelper(res)
    /\ UNCHANGED <<cin, cout, lifecycleVars>>

\* the second try block of the auto streamer: the first probe that succeeds
ProbeStage ==
    /\ res.pc = "probe"
    /\ LET hits == {k \in 1..Len(ProbeList) :
                       test_connection(PortBound(res.run), k \in res.net)}
       IN  res' = IF hits = {}
                  THEN [res EXCEPT !.pc = "fallback",
                                   !.probed = Len(ProbeList),
                                   !.unclosed = Unclosed(res, Len(ProbeList))]
                  ELSE [res EXCEPT !.pc = "returned", !.via = "probe",
                                   !.ip = ProbeList[MinOf(hits)],
                                   !.probed = MinOf(hits),
                                   !.unclosed = Unclosed(res, MinOf(hits))]
    /\ UNCHANGED <<cin, cout, lifecycleVars>>

\* return "127.0.0.1"
Fallback ==
    /\ res.pc = "fallback"
    /\ res' = [res EXCEPT !.pc = "returned", !.via = "fallback",
                          !.ip = Loopback]
    /\ UNCHANGED <<cin, cout, lifecycleVars>>

\* the script is started once more, in a new process: the hash salt is
\* drawn anew, and the helper and the network are as they were or have
\* changed; the address of the first start is kept for comparison
SecondRun ==
    /\ res.pc = "returned"
    /\ res.run = 1
    /\ \E h \in HelperResults, n \in Networks, sd \in 0..1 :
           res' = [res EXCEPT !.pc = "helper", !.run = 2, !.first = res.ip,
                              !.helper = h, !.net = n, !.seed = sd,
                              !.ip = <<>>, !.via = "none", !.helperCalls = 0,
                              !.probed = 0, !.unclosed = 0]
    /\ UNCHANGED <<cin, cout, lifecycleVars>>

ResolveNext == HelperStage \/ ProbeStage \/ Fallback \/ SecondRun

SpecResolve == ResolveInit /\ [][ResolveNext]_vars

----------------------------------------------------------------------------
(* Claims *)

InLoop == pc \in {"running", "iterated"}

\* C1: every datagram handed to sendto carries exactly chunk_size samples,
\* whatever number of samples the device read returned and for one channel
\* or two.
C1_DatagramHasChunkSize == sendCalled => Len(datagram) = ChunkSize

\* C2: once the loop runs, a failing read, conditioning or send never ends
\* it: the loop is left only by an external interrupt.
C2_LoopLeftOnlyByInterrupt ==
    [][(InLoop /\ pc' \notin {"running", "iterated"}) => exit' = "interrupt"]_vars

\* C3: however start_streaming finishes (interrupt, failure to open, early
\* return without a device), the stream, if one was opened, and the socket
\* of the constructor are closed.
C3_ReleasedOnEveryExit == pc = "done" => (handles = 0 /\ ~socketOpen)

Harnessed(vs) == cout.state = "done" /\ cin.v \in vs /\ ~cout.r.raised

\* C4: a raw buffer of exactly 2 * frameSize interleaved samples read with
\* two channels is downmixed to frameSize samples, sample k being the mean
\* of the k-th pair.
C4_DownmixIsPairMean ==
    (/\ cout.state = "done"
     /\ cin.v \in {"simple", "system", "universal"}
     /\ cin.ch = 2
     /\ Len(cin.raw) = 2 * cin.n)
        => /\ ~cout.r.raised
           /\ Len(cout.r.mono) = cin.n
           /\ \A k \in 1..cin.n :
                  2 * cout.r.mono[k] = cin.raw[2 * k - 1] + cin.raw[2 * k]

C4_Witness ==
    /\ cout.state = "done"
    /\ cin.v = "system"
    /\ cin.ch = 2
    /\ cin.n = CondFrame
    /\ Len(cin.raw) = 2 * cin.n
    /\ cin.raw[1] # cin.raw[2]
    /\ cout.r.mono[1] # 0

\* C5: a (downmixed) buffer shorter than frameSize is followed by zeros up
\* to frameSize, a longer one is cut to its first frameSize samples, and one
\* of exactly frameSize samples is left as it is.
C5_LengthNormalized ==
    Harnessed({"simple", "universal"})
        => /\ Len(cout.r.pre) = cin.n
           /\ \A k \in 1..cin.n :
                  cout.r.pre[k] = IF k <= Len(cout.r.mono)
                                  THEN cout.r.mono[k] ELSE 0

C5_Witness ==
    /\ Harnessed({"universal"})
    /\ cin.ch = 2
    /\ Len(cout.r.mono) = cin.n - 1
    /\ cout.r.mono[cin.n - 1] # 0
    /\ cout.r.pre[cin.n] = 0

ExampleRaw == <<10000, 10000, -4000, -4000>>

\* C6: the activity level is the largest magnitude of the downmixed and
\* length-normalized samples before the gain is applied: the frame sent is
\* that frame times the gain, an all-zero frame is silent under every gain,
\* and [0.5, 0.5, -0.2, -0.2] read with two channels and frameSize 4 gives
\* [0.5, -0.2, 0, 0] before the gain, with level 0.5.
C6_LevelMeasuredBeforeGain ==
    /\ Harnessed({"simple", "universal"})
           => /\ \A k \in 1..Len(cout.r.pre) : Abs(cout.r.pre[k]) <= cout.r.level
              /\ \E k \in 1..Len(cout.r.pre) : Abs(cout.r.pre[k]) = cout.r.level
              /\ Len(cout.r.frame) = Len(cout.r.pre)
              /\ \A k \in 1..Len(cout.r.pre) :
                     10 * cout.r.frame[k] = Gain(cin.v) * cout.r.pre[k]
              /\ (cout.r.pre = Zeros(cin.n) => cout.r.cls = "silent")
    /\ (Harnessed({"simple", "universal"})
            /\ cin.raw = ExampleRaw /\ cin.ch = 2 /\ cin.n = 4)
           => /\ cout.r.pre = <<10000, -4000, 0, 0>>
              /\ cout.r.level = 10000

C6_Witness ==
    /\ Harnessed({"simple"})
    /\ cin.raw = ExampleRaw
    /\ cin.ch = 2
    /\ cin.n = 4
    /\ cout.r.level = 10000
    /\ cout.r.frame = <<20000, -8000, 0, 0>>

\* C7: a frame is classified silent exactly when its level is at most 0.001
\* and active exactly when it is above, with the same threshold in every
\* streamer that classifies frames.
C7_ClassifiedAtFixedThreshold ==
    cls # "none" => (cls = "silent" <=> max_level <= SilenceThreshold)

\* C8: every frame that was read and conditioned, silent or active, is
\* multiplied by the gain of the run and sent: none is skipped or left
\* unamplified because its level is at or below the silence threshold.
C8_EveryFrameAmplifiedAndSent ==
    (pc = "iterated" /\ iterErr \notin {"read", "cond"})
        => /\ sendCalled
           /\ (max_level # NoLevel /\ datagram # <<>>)
                  => 10 * MaxAbs(datagram) = Gain(variant) * max_level

\* the candidate rates the chosen device would accept, by list position
Usable ==
    {i \in 1..Len(sample_rates) :
        OpenAccepted(host, device_id, use_channels, sample_rates[i])}

\* C9: negotiation tries 44100, 48000, 22050, 16000 in this order and keeps
\* the first the device accepts: a device that accepts some candidate ends
\* up running at the first accepted one, nothing after it is tried, and at
\* most one stream handle is ever open.
C9_FirstAcceptedRateKept ==
    /\ handles <= 1
    /\ InLoop => /\ Usable # {}
                 /\ sample_rate = sample_rates[MinOf(Usable)]
                 /\ opened = SubSeq(sample_rates, 1, MinOf(Usable))
    /\ (pc = "done" /\ exit = "open_failed") => Usable = {}

RejectsEveryRate ==
    /\ device_id # NoDevice
    /\ \A rate \in {44100, 48000, 22050, 16000} :
           ~OpenAccepted(host, device_id, use_channels, rate)

\* C10: when the chosen device rejects all four candidate rates, the fixed
\* streamer ends in a terminal failure: the loop is never entered, no
\* datagram is sent, all four rates are reported, and no stream handle
\* remains open.
C10_ExhaustionIsTerminal ==
    (variant = "fixed" /\ RejectsEveryRate)
        => /\ ~InLoop
           /\ ~sendCalled
           /\ handles = 0
           /\ pc = "done"
                  => /\ exit = "open_failed"
                     /\ opened = <<44100, 48000, 22050, 16000>>
                     /\ reported = <<44100, 48000, 22050, 16000>>

C10_Witness ==
    /\ variant = "fixed"
    /\ pc = "done"
    /\ exit = "open_failed"
    /\ accepts = {}
    /\ Info(host, device_id).maxInputChannels > 0
    /\ reported = <<44100, 48000, 22050, 16000>>
    /\ handles = 0

\* one call of detect_wsl_ip
ResolveOnce == HelperStage \/ ProbeStage \/ Fallback

\* one start of the script: the straight-line code of detect_wsl_ip runs on
\* once started
SpecResolveFair ==
    ResolveInit /\ [][ResolveOnce]_vars /\ WF_vars(ResolveOnce)

ResolverReturned == res.pc = "returned"

\* the value returned is the helper's first token, a probed address or the
\* loopback address, and no exception has left detect_wsl_ip
ResolvedSafely ==
    /\ res.pc \in {"helper", "probe", "fallback", "returned"}
    /\ res.helperCalls <= 1
    /\ ResolverReturned =>
           \/ res.ip = Loopback
           \/ /\ res.helper.kind = "output"
              /\ res.ip # NoToken
              /\ res.ip = FirstToken(res.helper.out)
           \/ \E k \in 1..Len(ProbeList) : res.ip = ProbeList[k]

\* C11: endpoint resolution never raises and always returns an address:
\* whether the helper is missing, times out, exits non-zero, prints nothing
\* or prints something invalid, and whatever the probes do, detect_wsl_ip
\* terminates and returns a discovered address or 127.0.0.1.
C11_ResolutionAlwaysReturns ==
    /\ [](ResolvedSafely)
    /\ (res.pc = "helper") ~> ResolverReturned

C11_Witness ==
    /\ ResolverReturned
    /\ res.v = "auto"
    /\ res.helper.kind = "output"
    /\ FirstToken(res.helper.out) = NoToken
    /\ res.net # {}
    /\ res.probed = Len(ProbeList)
    /\ res.ip = Loopback

\* C12: an address printed by the helper is accepted only if it is four
\* dot-separated decimal octets, each in 0..255; any other token is
\* rejected, the helper is not run again and resolution goes on to the next
\* stage.
C12_OnlyOctetsAccepted ==
    LET DigitValue(c) ==
            LET d == <<"0", "1", "2", "3", "4", "5", "6", "7", "8", "9">>
            IN  (CHOOSE k \in 1..10 : d[k] = c) - 1
        RECURSIVE Number(_)
        Number(t) ==
            IF t = <<>> THEN 0
            ELSE 10 * Number(SubSeq(t, 1, Len(t) - 1)) + DigitValue(t[Len(t)])
        \* four dot-separated decimal octets, each in 0..255: the address
        \* format the statement names, which is narrower than validate_ip
        IsIPv4(ip) ==
            /\ DotCount(ip) = 3
            /\ \A i \in 1..Len(ip) : ip[i] \in Digits \cup {"."}
            /\ \A k \in 1..4 :
                   LET part == SubSeq(ip, Cut(ip, k - 1) + 1, Cut(ip, k) - 1)
                   IN  Len(part) >= 1 /\ Len(part) <= 3
                          /\ Number(part) <= 255
    IN  /\ res.pc # "off" => res.helperCalls <= 1
        /\ (ResolverReturned /\ res.via = "helper") => IsIPv4(res.ip)
        /\ (res.pc \in {"probe", "fallback"} /\ res.helper.kind = "output"
               /\ FirstToken(res.helper.out) # NoToken)
              => ~IsIPv4(FirstToken(res.helper.out))

\* the second start found the environment of the first: the same helper
\* result and the same outcome of a send to each candidate
SameEnvironment ==
    /\ res.helper = res.env1.helper
    /\ res.net = res.env1.net

InputCapable(h, i) == Info(h, i).maxInputChannels > 0

DeviceScore(h, i) == Score(NameLower(h, i))

\* the device was picked by the script's own search: the operator was not
\* asked, and the WASAPI loopback twin was not there to take precedence
PickedBySearch ==
    /\ pc \notin {"start", "off"}
    /\ device_id # NoDevice
    /\ typed = NotAsked
    /\ variant = "wasapi" => LoopbackDevice(host) = NoDevice

\* C14: devices are scored by case-insensitive substring matching, the first
\* matching rule deciding: stereo mix 100, what u hear 90, loopback 85, wave
\* out mix 80, speakers with input 70, realtek with stereo or mix 60, sound
\* mapper 50, otherwise no score; so "Stereo Mix (Realtek Audio)" scores 100
\* and outranks "Speakers (Realtek) Input" at 70, and "Realtek Microphone"
\* is excluded.
C14_ScoringTable ==
    /\ Score(Lower(NameStereoMix)) = 100
    /\ Score(Lower(NameSpeakersInput)) = 70
    /\ Score(Lower(NameRealtekMic)) = 0
    /\ (PickedBySearch /\ variant \in {"wasapi", "universal"})
           => DeviceScore(host, device_id) > 0

\* C15: candidates are ordered by descending score and, at equal score, by
\* ascending device index: of several input devices sharing the highest
\* score the one with the lowest index is selected.
C15_TiesGoToLowestIndex ==
    (PickedBySearch /\ DeviceScore(host, device_id) > 0)
        => \A i \in Indices(host) :
               (InputCapable(host, i)
                   /\ DeviceScore(host, i) = DeviceScore(host, device_id))
                   => device_id <= i

\* C16: automatic selection returns a device of maximal score: when some
\* input-capable device matches a scoring keyword, no input-capable device
\* scores strictly higher than the one selected, in whatever order the host
\* enumerates the devices.
C16_MaximalScoreSelected ==
    (PickedBySearch /\ variant \in {"system", "universal", "wasapi"}
        /\ \E i \in Indices(host) :
               InputCapable(host, i) /\ DeviceScore(host, i) > 0)
        => \A i \in Indices(host) :
               InputCapable(host, i)
                   => DeviceScore(host, i) <= DeviceScore(host, device_id)

\* the name matches no keyword of any script's list
Unscored(h, i) ==
    /\ DeviceScore(h, i) = 0
    /\ \A k \in 1..Len(priority_keywords) :
           ~Contains(NameLower(h, i), priority_keywords[k])
    /\ \A k \in 1..Len(system_audio_names) :
           ~Contains(NameLower(h, i), system_audio_names[k])

\* C17: a device whose name matches no scoring keyword is never selected
\* automatically: a capture stream is opened on such a device only after the
\* operator has explicitly chosen it.
C17_UnscoredOnlyByChoice ==
    (handles > 0 /\ Unscored(host, device_id)) => typed >= 0

\* C18: one datagram per frame and nothing carried over: an iteration calls
\* sendto at most once, the payload is computed from the buffer read in the
\* same iteration alone, and an iteration whose read, conditioning or send
\* failed leaves nothing for a later datagram.
C18_OneDatagramPerFrame ==
    /\ sent <= 1
    /\ sendCalled
           => /\ sent = 1
              /\ datagram
                     = Condition(variant, data, use_channels, ChunkSize).frame
    /\ ~sendCalled => (sent = 0 /\ datagram = <<>>)
    /\ iterErr \in {"read", "cond"} => ~sendCalled
    /\ pc = "running" => (data = <<>> /\ audio_data = <<>> /\ datagram = <<>>)

C18_Witness ==
    /\ pc = "iterated"
    /\ afterError
    /\ variant \in {"simple", "wasapi"}
    /\ iterErr = "none"
    /\ sent = 1
    /\ Len(data) = 2 * ChunkSize
    /\ Len(datagram) = ChunkSize

\* C19: when the stream was opened with two channels, every frame sent
\* consists of the means of the sample pairs only, never of raw interleaved
\* left and right samples, also when the read returns fewer than
\* 2 * frameSize samples.
C19_StereoFramesArePairMeans ==
    (sendCalled /\ use_channels = 2)
        => \A k \in 1..Len(datagram) :
               20 * datagram[k]
                   = Gain(variant) * (IF 2 * k <= Len(data)
                                      THEN data[2 * k - 1] + data[2 * k]
                                      ELSE 0)

\* C20: the stream is opened with min(preferredChannels, maxInputChannels)
\* channels, and with one channel when the device reports no input channel;
\* a device with a single input channel is never opened with two.
C20_ChannelsWithinDevice ==
    opened # <<>>
        => LET maxIn == Info(host, device_id).maxInputChannels
               want == PreferredChannels(variant)
           IN  use_channels = IF maxIn <= 0 THEN 1
                              ELSE IF maxIn < want THEN maxIn ELSE want

\* the helper stage succeeded: exit status 0 and a first token that passes
\* the script's test
HelperSucceeded(r) ==
    /\ r.helper.kind = "output"
    /\ FirstToken(r.helper.out) # NoToken
    /\ AcceptsToken(r.v, FirstToken(r.helper.out))

\* C21: the resolver applies its stages in order and the first success
\* wins: the helper's address whenever the helper succeeds with a valid
\* first address, without probing; otherwise the first candidate in the
\* order 172.28.48.71 .. 172.28.79.71, 172.29.48.71 .. , 172.30.48.71 ..
\* to which a probe can be sent; the loopback address only when the helper
\* stage failed and every probe failed.
C21_FirstSuccessWins ==
    /\ ProbeList[1] = <<"1","7","2",".","2","8",".","4","8",".","7","1">>
    /\ ProbeList[33] = <<"1","7","2",".","2","9",".","4","8",".","7","1">>
    /\ ProbeList[96] = <<"1","7","2",".","3","0",".","7","9",".","7","1">>
    /\ (ResolverReturned /\ res.v = "auto")
           => /\ HelperSucceeded(res)
                     => /\ res.via = "helper"
                        /\ res.ip = FirstToken(res.helper.out)
                        /\ res.probed = 0
              /\ (~HelperSucceeded(res) /\ res.net # {})
                     => /\ res.via = "probe"
                        /\ res.ip = ProbeList[MinOf(res.net)]
              /\ (~HelperSucceeded(res) /\ res.net = {})
                     => (res.via = "fallback" /\ res.ip = Loopback)

\* C24: every probe socket opened by test_connection is closed before
\* test_connection returns, when the send succeeds and when it raises: once
\* the scan of the candidates is over, no probe socket is left open.
C24_ProbeSocketsClosed ==
    (res.pc \in {"fallback", "returned"} /\ res.v = "auto")
        => res.unclosed = 0

\* C23: no backoff follows a per-iteration error: when a read, conditioning
\* or send error has been caught by the handler inside the loop, the loop
\* goes on to the next read without a sleep in between.
C23_NoBackoffAfterError ==
    (pc = "iterated" /\ iterErr # "none" /\ HasInnerTry(variant)) => ~slept

\* the devices of a host whose information can be queried
Queryable(h) == {i \in Indices(h) : ~Raises(h, i)}

\* C22: a device whose information cannot be queried during enumeration is
\* skipped and enumeration goes on with the next index: the failure neither
\* aborts device selection nor ends the program, and the remaining devices
\* are still considered, so a loopback twin or a Stereo Mix among them is
\* found.
C22_UnqueryableDeviceSkipped ==
    LET \* what a search that skips the failing device would still reach:
        \* every queryable input device that carries the name of the
        \* default output device, also behind a device that cannot be
        \* queried (get_loopback_device itself stops there: LoopbackDevice)
        reachableTwins ==
            IF Hosts[host].wpatch
                  /\ Hosts[host].defaultOutput \in Queryable(host)
            THEN {i \in Queryable(host) :
                     /\ Info(host, i).name
                           = Info(host, Hosts[host].defaultOutput).name
                     /\ Info(host, i).maxInputChannels > 0}
            ELSE {}
    IN  (/\ pc \notin {"start", "off"}
         /\ variant \in {"simple", "auto", "system", "universal", "wasapi"}
         /\ Queryable(host) # Indices(host))
            => /\ exit \notin {"crash", "device_error"}
               /\ (variant = "wasapi" /\ reachableTwins # {})
                      => device_id = MinOf(reachableTwins)
               /\ (/\ \E i \in Queryable(host) : IsStereoMix(host, i)
                   /\ ~(variant = "wasapi" /\ reachableTwins # {}))
                      => (device_id \in Queryable(host)
                            /\ IsStereoMix(host, device_id))

====
